---- MODULE Spec2Model ----
(***************************************************************************)
(* A model of the refresh orchestrator of hass-immich-addon:               *)
(* PhotoUpdater.run / PhotoUpdater.update_photos (src/src/photo_updater.py)*)
(* together with the file helpers of src/src/utils/file_utils.py and the   *)
(* media dispatch of src/src/utils/media_utils.py, and the selection of    *)
(* asset identifiers by the strategies of src/src/immich/selectors.py      *)
(* (specification SelSpec).                                                *)
(*                                                                         *)
(* The publish directory is a flat directory of regular files.  A file     *)
(* name is a record [stem, ext] (what os.path.splitext returns).  The      *)
(* remote server, the file system and the decoders are the environment:    *)
(* their answers (identifiers, archive contents, I/O errors, decode        *)
(* results) are chosen nondeterministically.                               *)
(***************************************************************************)
EXTENDS Integers, Sequences, FiniteSets, TLC

VARIABLES
    filters,               \* config.filters: the ordered filter-set names
    running,               \* self.running
    last_update,           \* self.last_update (0 is None)
    current_filter_index,  \* self.current_filter_index
    asset_selector,        \* self.client.asset_selector: filter set it was built for
    pc,                    \* position of the run task
    current_filter,        \* update_photos local
    asset_ids,             \* update_photos local
    data,                  \* update_photos local: downloaded bytes
    archive_path,          \* update_photos local, Unbound until line 125
    extracted_files,       \* update_photos local
    processed_files,       \* update_photos local
    dir,                   \* the publish directory: name -> "absent" | "old" | "new"
    sleep_for,             \* seconds of the pending asyncio.sleep
    raised,                \* history: update_photos raised to the run loop
    failed_at,             \* history: step of the cycle that raised, or "none"
    del_failed,            \* history: an os.remove of the archive failed in this cycle
    cancelled,             \* history: the task was cancelled
    nsucc,                 \* history: number of successful cycles (saturating)
    start_index,           \* history: cursor when the cycle started
    start_last_update,     \* history: last_update when the cycle started
    prev_failed,           \* history: the cycle about to start follows a failed one
    evicted,               \* history: cleanup_directory deleted a file in this cycle
    decoded,               \* history: what the decoders made of each extracted file
    filter_set,            \* _create_selector_for_filter argument: a PhotoFilters
    people,                \* self.people: person name -> person id
    selector,              \* the AssetSelector that was built
    request_body,          \* json of the search request that was posted
    response_data,         \* response.json() of the search request
    selected_asset_ids,    \* what get_assets returned
    posts,                 \* number of search requests the selector posted
    spc                    \* position of the selection

vars == <<filters, running, last_update, current_filter_index, asset_selector,
          pc, current_filter, asset_ids, data, archive_path, extracted_files,
          processed_files, dir, sleep_for, raised, failed_at, del_failed,
          cancelled, nsucc, start_index, start_last_update, prev_failed,
          evicted, decoded, filter_set, people, selector, request_body,
          response_data, selected_asset_ids, posts, spc>>

----------------------------------------------------------------------------
(* Bounds *)

MaxFilters == 2      \* filter sets configured
NumPhotos == 2       \* config.num_photos: identifiers asked for per cycle
MaxInitFiles == 2    \* files in the publish directory when the process starts
MaxSucc == 3         \* the success counter saturates here
MaxItems == 2        \* identifiers in an album of a search response

(* Program constants *)

UPDATE_INTERVAL_MINUTES == 60
BackoffSeconds == 60

SUPPORTED_IMAGE_FORMATS == {".jpg", ".jpeg", ".png", ".gif", ".webp"}
SUPPORTED_VIDEO_FORMATS == {".mov", ".mp4"}
HEIC_FORMATS == {".heic", ".heif"}
FILE_TYPES == SUPPORTED_IMAGE_FORMATS \cup SUPPORTED_VIDEO_FORMATS \cup HEIC_FORMATS

----------------------------------------------------------------------------
(* The universe of names *)

FilterNames == <<"f1", "f2", "f3", "f4">>
IdPool == <<"id1", "id2", "id3", "id4">>

Stems == {"a"}
Exts == {".jpg", ".JPG", ".mp4", ".heic", ".dng"}
FileNames == [stem : Stems, ext : Exts]
ArchiveName == [stem |-> "photos", ext |-> ".zip"]
AllNames == FileNames \cup {ArchiveName}
\* the selectors ask for "type": "IMAGE", so the archive holds no video
ImageNames == {f \in FileNames : f.ext \notin {".mp4"}}
Unbound == [stem |-> "", ext |-> ""]
NoData == [valid |-> FALSE, entries |-> <<>>]

Range(s) == {s[i] : i \in 1..Len(s)}
Min(a, b) == IF a < b THEN a ELSE b

\* str.lower() on the extensions of the universe
lower(ext) ==
    CASE ext = ".JPG" -> ".jpg"
      [] OTHER -> ext

Files(d) == {f \in AllNames : d[f] # "absent"}
IsRecognized(f) == lower(f.ext) \in FILE_TYPES
RecognizedFiles(d) == {f \in Files(d) : IsRecognized(f)}

\* sequences without repetition over S, of length at most n
RECURSIVE SeqsUpTo(_, _)
SeqsUpTo(S, n) ==
    IF n = 0 THEN {<<>>}
    ELSE LET shorter == SeqsUpTo(S, n - 1)
         IN  shorter \cup {Append(s, x) : s \in shorter, x \in S}

DistinctSeqs(S, n) ==
    {s \in SeqsUpTo(S, n) : \A i, j \in 1..Len(s) : i # j => s[i] # s[j]}

----------------------------------------------------------------------------
(* file_utils.py *)

\* cleanup_file when os.remove succeeds (or the file does not exist)
cleanup_file(d, f) == [d EXCEPT ![f] = "absent"]

RECURSIVE cleanup_files(_, _)
cleanup_files(d, fs) ==
    IF fs = <<>> THEN d ELSE cleanup_files(cleanup_file(d, Head(fs)), Tail(fs))

\* a cleanup_directory that compares the extension without lowering it
cleanup_directory_CaseSensitive(d) ==
    [f \in AllNames |-> IF f \in Files(d) /\ f.ext \in FILE_TYPES
                        THEN "absent" ELSE d[f]]

\* cleanup_directory when every os.remove succeeds
cleanup_directory(d) ==
    [f \in AllNames |-> IF f \in Files(d) /\ lower(f.ext) \in FILE_TYPES
                        THEN "absent" ELSE d[f]]

\* save_binary_data: open(filepath, 'wb') creates or truncates the file
save_binary_data(d, path) == [d EXCEPT ![path] = "new"]

\* extract_zip: extractall writes the first n entries of the archive
extract_zip(d, entries, n) ==
    [f \in AllNames |-> IF f \in {entries[i] : i \in 1..n} THEN "new" ELSE d[f]]

----------------------------------------------------------------------------
(* media_utils.py *)

\* What the decoders make of a HEIC-family file: Image.open either decodes
\* it ("ok"), raises UnidentifiedImageError ("unidentified") or another
\* exception ("error"); ffmpeg either transcodes it ("ok") or fails.
Outcomes == [img : {"ok", "unidentified", "error"}, vid : {"ok", "fail"}]

\* process_media_file lines 109-120: the decoders run on HEIC-family files
\* only, so the outcomes of any other file are of no account
DecoderOutcomes(f) ==
    IF lower(f.ext) \in HEIC_FORMATS THEN Outcomes
    ELSE {[img |-> "ok", vid |-> "ok"]}

convert_heic_to_jpg(f) == [stem |-> f.stem, ext |-> ".jpg"]
convert_heic_video_to_mp4(f) == [stem |-> f.stem, ext |-> ".mp4"]

\* process_media_file: ok = FALSE when it raises, else out is the returned path
process_media_file(f, oc) ==
    LET ext == lower(f.ext)
    IN  IF ext \in HEIC_FORMATS
        THEN IF oc.img = "ok"
             THEN [ok |-> TRUE, out |-> convert_heic_to_jpg(f)]
             ELSE IF oc.img = "unidentified" /\ oc.vid = "ok"
                  THEN [ok |-> TRUE, out |-> convert_heic_video_to_mp4(f)]
                  ELSE [ok |-> FALSE, out |-> f]
        ELSE IF ext \in SUPPORTED_IMAGE_FORMATS \/ ext \in SUPPORTED_VIDEO_FORMATS
             THEN [ok |-> TRUE, out |-> f]
             ELSE [ok |-> FALSE, out |-> f]

\* a batch that stops at the first file that fails
RECURSIVE process_media_files_AbortEarly(_, _, _, _)
process_media_files_AbortEarly(input_files, ocs, i, acc) ==
    IF i > Len(input_files) THEN acc
    ELSE LET r == process_media_file(input_files[i], ocs[i])
         IN  IF r.ok
             THEN process_media_files_AbortEarly(input_files, ocs, i + 1,
                      [processed |-> Append(acc.processed, r.out),
                       d |-> IF r.out # input_files[i]
                             THEN [acc.d EXCEPT ![r.out] = "new"]
                             ELSE acc.d])
             ELSE acc

\* process_media_files: the list of returned paths and the directory after
\* the conversions have written their outputs
RECURSIVE process_media_files(_, _, _, _)
process_media_files(input_files, ocs, i, acc) ==
    IF i > Len(input_files) THEN acc
    ELSE LET r == process_media_file(input_files[i], ocs[i])
         IN  process_media_files(input_files, ocs, i + 1,
                 IF r.ok
                 THEN [processed |-> Append(acc.processed, r.out),
                       d |-> IF r.out # input_files[i]
                             THEN [acc.d EXCEPT ![r.out] = "new"]
                             ELSE acc.d]
                 ELSE acc)

----------------------------------------------------------------------------
(* selectors.py and PhotoUpdater._create_selector_for_filter *)

\* A PhotoFilters (schema.py lines 26-35): "None" is None for the optional
\* strings, 0 is None for max_search_results, <<>> is None (or an empty
\* list, equally falsy) for people
SelectorTypes == {"random", "smart", "smart-rng"}
Queries == {"None", "sunset", "dogs"}
Cities == {"None", "Paris"}
Dates == {"None", "d1"}
PersonNames == <<"alice", "bob">>
PeopleLists == {SubSeq(PersonNames, 1, n) : n \in 0..Len(PersonNames)}
DefaultMaxSearchResults == 250
MaxSearchResults == {0, 5}

\* PhotoFilters.validate, schema.py lines 37-49
validate(fs) ==
    /\ fs.selector_type \in {"smart", "smart-rng"} => fs.search_query # "None"
    /\ fs.selector_type = "random" => fs.search_query = "None"
    /\ fs.max_search_results # 0 =>
          /\ fs.selector_type = "smart-rng"
          /\ fs.max_search_results > 0
          /\ fs.max_search_results <= 1000

PhotoFilters ==
    {fs \in [selector_type : SelectorTypes, search_query : Queries,
             max_search_results : MaxSearchResults, city : Cities,
             people : PeopleLists, taken_after : Dates, taken_before : Dates] :
        validate(fs)}

\* ImmichAPI.get_people: the directory the server knows
PersonId(name) == IF name = "alice" THEN "pid-alice" ELSE "pid-bob"
PersonDirectories ==
    {[name \in Range(SubSeq(PersonNames, 1, n)) |-> PersonId(name)] :
        n \in 1..Len(PersonNames)}

NoSelector ==
    [kind |-> "None", search_query |-> "None", max_search_results |-> 0,
     city |-> "None", person_ids |-> <<>>, taken_after |-> "None",
     taken_before |-> "None"]

\* a resolution that skips the names it does not find
ResolvePersonIds_Partial(names, directory) ==
    LET found == SelectSeq(names, LAMBDA name : name \in DOMAIN directory)
    IN  [i \in 1..Len(found) |-> directory[found[i]]]

\* _create_selector_for_filter lines 66-73: a name missing from the
\* directory raises KeyError out of the list comprehension, and person_ids
\* stays None (<<>>)
ResolvePersonIds(names, directory) ==
    IF names # <<>> /\ \A i \in 1..Len(names) : names[i] \in DOMAIN directory
    THEN [i \in 1..Len(names) |-> directory[names[i]]]
    ELSE <<>>

\* a dispatch that misspells the smart-rng selector type
create_selector_for_filter_Misspelt(fs, directory) ==
    [kind |-> IF fs.selector_type = "smart"
              THEN "SmartSearchAssetSelector"
              ELSE "RandomAssetSelector",
     search_query |-> IF fs.selector_type = "smart"
                      THEN fs.search_query ELSE "None",
     max_search_results |-> 0,
     city |-> fs.city,
     person_ids |-> ResolvePersonIds(fs.people, directory),
     taken_after |-> fs.taken_after,
     taken_before |-> fs.taken_before]

\* _create_selector_for_filter lines 63-98; RandomAssetSelector has no
\* search_query and only RandomSmartSearchAssetSelector a max_search_results
create_selector_for_filter(fs, directory) ==
    [kind |-> IF fs.selector_type = "smart"
              THEN "SmartSearchAssetSelector"
              ELSE IF fs.selector_type = "smart-rng"
                   THEN "RandomSmartSearchAssetSelector"
                   ELSE "RandomAssetSelector",
     search_query |-> IF fs.selector_type \in {"smart", "smart-rng"}
                      THEN fs.search_query ELSE "None",
     max_search_results |->
         IF fs.selector_type = "smart-rng"
         THEN IF fs.max_search_results # 0 THEN fs.max_search_results
              ELSE DefaultMaxSearchResults
         ELSE 0,
     city |-> fs.city,
     person_ids |-> ResolvePersonIds(fs.people, directory),
     taken_after |-> fs.taken_after,
     taken_before |-> fs.taken_before]

\* datetime.isoformat on the dates of the universe
isoformat(d) == IF d = "d1" THEN "2024-01-01T00:00:00" ELSE "None"

\* the keys of the request body: selectors.py lines 75-91, 149-163, 236-250
RequestKeys(sel) ==
    {"size", "type"}
    \cup (IF sel.kind # "RandomAssetSelector" THEN {"query"} ELSE {})
    \cup (IF sel.taken_after # "None" THEN {"takenAfter"} ELSE {})
    \cup (IF sel.taken_before # "None" THEN {"takenBefore"} ELSE {})
    \cup (IF sel.person_ids # <<>> THEN {"personIds"} ELSE {})
    \cup (IF sel.city # "None" THEN {"city"} ELSE {})

\* a smart-rng request that asks for count results
RequestValue_SizeIsCount(sel, count, key) ==
    CASE key = "size" -> count
      [] key = "type" -> "IMAGE"
      [] key = "query" -> sel.search_query
      [] key = "takenAfter" -> isoformat(sel.taken_after)
      [] key = "takenBefore" -> isoformat(sel.taken_before)
      [] key = "personIds" -> sel.person_ids
      [] key = "city" -> sel.city

\* the values of the request body: selectors.py lines 75-91, 149-163, 236-250
RequestValue(sel, count, key) ==
    CASE key = "size" -> IF sel.kind = "RandomSmartSearchAssetSelector"
                         THEN sel.max_search_results ELSE count
      [] key = "type" -> "IMAGE"
      [] key = "query" -> sel.search_query
      [] key = "takenAfter" -> isoformat(sel.taken_after)
      [] key = "takenBefore" -> isoformat(sel.taken_before)
      [] key = "personIds" -> sel.person_ids
      [] key = "city" -> sel.city

RequestBody(sel, count) ==
    [key \in RequestKeys(sel) |-> RequestValue(sel, count, key)]

NoRequest == [key \in {} |-> "None"]

\* What the server may answer.  /api/search/random answers a list of items
\* (kept in assets); /api/search/smart answers an assets section and an
\* albums section whose albums may or may not carry an "assets" list.  The
\* server is not assumed to honour size.
IdSet == Range(IdPool)
Albums ==
    {[has_assets |-> FALSE, assets |-> <<>>]}
    \cup {[has_assets |-> TRUE, assets |-> ids] : ids \in SeqsUpTo(IdSet, MaxItems)}
AssetSections == {SubSeq(IdPool, 1, n) : n \in 0..Len(IdPool)}
NoResponse == [assets |-> <<>>, albums |-> <<>>]

Responses(kind) ==
    IF kind = "RandomAssetSelector"
    THEN [assets : AssetSections, albums : {<<>>}]
    ELSE [assets : AssetSections, albums : {<<>>} \cup {<<a>> : a \in Albums}]

\* selectors.py lines 180-182 and 267-269: the members of the albums that
\* carry an "assets" list, in order
RECURSIVE AlbumIds(_)
AlbumIds(albums) ==
    IF albums = <<>> THEN <<>>
    ELSE (IF Head(albums).has_assets THEN Head(albums).assets ELSE <<>>)
         \o AlbumIds(Tail(albums))

\* selectors.py lines 176-182 and 263-269
CollectIds(resp) == resp.assets \o AlbumIds(resp.albums)

\* a de-duplication that keeps everything
unique_KeepsDuplicates(ids) == ids

\* list(dict.fromkeys(asset_ids)), line 272: first occurrences, in order
RECURSIVE unique(_)
unique(ids) ==
    IF ids = <<>> THEN <<>>
    ELSE LET front == unique(SubSeq(ids, 1, Len(ids) - 1))
         IN  IF ids[Len(ids)] \in Range(front) THEN front
             ELSE Append(front, ids[Len(ids)])

\* random.sample(population, k): the elements at k distinct positions, in
\* any order
random_sample(population, k) ==
    {[i \in 1..k |-> population[pos[i]]] :
        pos \in {q \in [1..k -> 1..Len(population)] :
                    \A i, j \in 1..k : i # j => q[i] # q[j]}}

\* a test that also samples a pool of exactly count identifiers
ReturnsWholePool_Strict(n, count) == n < count

\* selectors.py line 277
ReturnsWholePool(n, count) == n <= count

\* The lists get_assets may return for a response: selectors.py lines
\* 99-101, 172-185 and 258-285
get_assets(sel, count, resp) ==
    IF sel.kind = "RandomAssetSelector" THEN {resp.assets}
    ELSE IF sel.kind = "SmartSearchAssetSelector" THEN {CollectIds(resp)}
    ELSE LET unique_asset_ids == unique(CollectIds(resp))
         IN  IF ReturnsWholePool(Len(unique_asset_ids), count)
             THEN {unique_asset_ids}
             ELSE random_sample(unique_asset_ids, count)

selection == <<filter_set, people, selector, request_body, response_data,
               selected_asset_ids, posts, spc>>

\* No selection is under way
SelectionIdle ==
    /\ filter_set = [selector_type |-> "random", search_query |-> "None",
                     max_search_results |-> 0, city |-> "None",
                     people |-> <<>>, taken_after |-> "None",
                     taken_before |-> "None"]
    /\ people = [name \in {} |-> "None"]
    /\ selector = NoSelector
    /\ request_body = NoRequest
    /\ response_data = NoResponse
    /\ selected_asset_ids = <<>>
    /\ posts = 0
    /\ spc = "idle"

----------------------------------------------------------------------------
(* photo_updater.py *)

\* a cursor that is never advanced
NextFilterIndex_Stuck(i, m) == i

\* a cursor that wraps one place too late
NextFilterIndex_WrapsLate(i, m) == (i + 1) % (m + 1)

\* a cursor that advances without wrapping
NextFilterIndex_NoWrap(i, m) == i + 1

\* update_photos line 146: the cursor after a successful cycle
NextFilterIndex(i, m) == (i + 1) % m

\* a handler that re-raises what it caught
UpdatePhotosRaises_Reraise == TRUE

\* update_photos lines 150-156: `except Exception` catches the failure of
\* every step, so nothing is raised to run
UpdatePhotosRaises == FALSE

\* a loop that does not look at the flag
LoopCondition_Always == TRUE

\* run line 168: while self.running
LoopCondition == running

\* run lines 170-181: the sleep that follows update_photos
RunSleep(exc) ==
    IF exc THEN BackoffSeconds ELSE UPDATE_INTERVAL_MINUTES * 60

TypeOK ==
    /\ filters \in {SubSeq(FilterNames, 1, m) : m \in 1..Len(FilterNames)}
    /\ running \in BOOLEAN
    /\ last_update \in 0..MaxSucc
    /\ current_filter_index \in Nat
    /\ pc \in {"start", "while", "build", "evict", "select", "download", "save",
               "extract", "process", "cleanup", "sleep", "exited"}
    /\ dir \in [AllNames -> {"absent", "old", "new"}]
    /\ archive_path \in {Unbound, ArchiveName}
    /\ nsucc \in 0..MaxSucc
    /\ spc \in {"idle", "config", "built", "returned", "raised"}
    /\ posts \in Nat
    /\ selector.kind \in {"None", "RandomAssetSelector",
                          "SmartSearchAssetSelector",
                          "RandomSmartSearchAssetSelector"}
    /\ DOMAIN request_body \subseteq
          {"size", "type", "query", "takenAfter", "takenBefore", "personIds",
           "city"}

\* The state after PhotoUpdater.__init__ (lines 32-36); the publish
\* directory holds whatever was left in it
PhotoUpdaterInit ==
    /\ filters \in {SubSeq(FilterNames, 1, m) : m \in 1..MaxFilters}
    /\ running = FALSE
    /\ last_update = 0
    /\ current_filter_index = 0
    /\ asset_selector = "None"
    /\ pc = "start"
    /\ current_filter = "None"
    /\ asset_ids = <<>>
    /\ data = NoData
    /\ archive_path = Unbound
    /\ extracted_files = <<>>
    /\ processed_files = <<>>
    /\ \E present \in SUBSET AllNames :
          /\ Cardinality(present) <= MaxInitFiles
          /\ dir = [f \in AllNames |-> IF f \in present THEN "old" ELSE "absent"]
    /\ sleep_for = 0
    /\ raised = FALSE
    /\ failed_at = "none"
    /\ del_failed = FALSE
    /\ cancelled = FALSE
    /\ nsucc = 0
    /\ start_index = 0
    /\ start_last_update = 0
    /\ prev_failed = FALSE
    /\ evicted = FALSE
    /\ decoded = <<>>

Init == PhotoUpdaterInit /\ SelectionIdle

config == <<filters>>
locals == <<current_filter, asset_ids, data, archive_path, extracted_files,
            processed_files>>
cursor == <<last_update, current_filter_index, nsucc>>
outcome == <<raised, failed_at, del_failed, sleep_for>>
history == <<evicted, decoded>>
snapshot == <<start_index, start_last_update, prev_failed>>

\* run lines 160-166
Run ==
    /\ pc = "start"
    /\ running' = TRUE
    /\ pc' = "while"
    /\ UNCHANGED <<config, selection, locals, cursor, outcome, snapshot, history,
                   asset_selector, dir, cancelled>>

\* a handler that ends the task at once
SignalHandler_Preempt ==
    /\ pc # "start"
    /\ running' = FALSE
    /\ pc' = "exited"
    /\ UNCHANGED <<history, config, selection, locals, cursor, outcome, snapshot,
                   asset_selector, dir, cancelled>>

\* _signal_handler lines 183-186, installed by run for SIGTERM and SIGINT
SignalHandler ==
    /\ pc # "start"
    /\ running' = FALSE
    /\ UNCHANGED <<config, selection, locals, cursor, outcome, snapshot, history,
                   asset_selector, dir, cancelled, pc>>

\* run line 168 with self.running true, then update_photos lines 102-103
StartCycle ==
    /\ pc = "while"
    /\ LoopCondition
    /\ current_filter' = filters[current_filter_index + 1]
    /\ start_index' = current_filter_index
    /\ start_last_update' = last_update
    /\ pc' = "build"
    /\ UNCHANGED <<config, selection, asset_ids, data, archive_path, extracted_files,
                   processed_files, cursor, outcome, history, prev_failed,
                   asset_selector, dir, running, cancelled>>

\* run line 168 with self.running false
ExitLoop ==
    /\ pc = "while"
    /\ ~LoopCondition
    /\ pc' = "exited"
    /\ UNCHANGED <<config, selection, locals, cursor, outcome, snapshot, history,
                   asset_selector, dir, cancelled, running>>

\* a handler that deletes photos.zip whether or not the path was assigned
ErrorRecovery_FixedPath(step, d, ap, failed_before) ==
    \E ok \in BOOLEAN :
        /\ dir' = IF ok THEN cleanup_file(d, ArchiveName) ELSE d
        /\ del_failed' = (failed_before \/ (~ok /\ d[ArchiveName] # "absent"))
        /\ failed_at' = step
        /\ raised' = UpdatePhotosRaises
        /\ sleep_for' = RunSleep(raised')
        /\ pc' = "sleep"

\* a handler that leaves the archive behind
ErrorRecovery_NoCleanup(step, d, ap, failed_before) ==
    /\ dir' = d
    /\ del_failed' = failed_before
    /\ failed_at' = step
    /\ raised' = UpdatePhotosRaises
    /\ sleep_for' = RunSleep(raised')
    /\ pc' = "sleep"

\* update_photos lines 150-156 and the return to run lines 172-175: the
\* handler deletes the archive when archive_path is bound (an unbound name
\* raises UnboundLocalError, which the inner handler swallows); ok is
\* whether os.remove succeeds
ErrorRecovery(step, d, ap, failed_before) ==
    \E ok \in BOOLEAN :
        /\ dir' = IF ap # Unbound /\ ok THEN cleanup_file(d, ap) ELSE d
        /\ del_failed' = (failed_before \/ (ap # Unbound /\ ~ok /\ d[ap] # "absent"))
        /\ failed_at' = step
        /\ raised' = UpdatePhotosRaises
        /\ sleep_for' = RunSleep(raised')
        /\ pc' = "sleep"

\* a cycle that asks for identifiers before it evicts
BuildStrategy_SelectFirst ==
    /\ pc = "build"
    /\ asset_selector' = current_filter
    /\ prev_failed' = FALSE
    /\ pc' = "select"
    /\ UNCHANGED <<config, selection, locals, cursor, outcome, start_index,
                   start_last_update, history, dir, running, cancelled>>

\* update_photos line 107: _create_selector_for_filter
BuildStrategy ==
    /\ pc = "build"
    /\ asset_selector' = current_filter
    /\ prev_failed' = FALSE
    /\ pc' = "evict"
    /\ UNCHANGED <<config, selection, locals, cursor, outcome, start_index,
                   start_last_update, history, dir, running, cancelled>>

\* a cycle that keeps the stale files until the new ones have arrived
EvictOk_Skip ==
    /\ pc = "evict"
    /\ dir' = dir
    /\ evicted' = FALSE
    /\ pc' = "select"
    /\ UNCHANGED <<config, selection, locals, cursor, outcome, snapshot, decoded,
                   asset_selector, running, cancelled>>

\* update_photos lines 111-114: cleanup_directory
EvictOk ==
    /\ pc = "evict"
    /\ dir' = cleanup_directory(dir)
    /\ evicted' = (Files(dir') # Files(dir))
    /\ pc' = "select"
    /\ UNCHANGED <<config, selection, locals, cursor, outcome, snapshot, decoded,
                   asset_selector, running, cancelled>>

\* cleanup_directory raises OSError: os.listdir fails, or an os.remove
\* fails after the files of gone were deleted
EvictFail ==
    /\ pc = "evict"
    /\ \E gone \in SUBSET RecognizedFiles(dir) :
          /\ gone # RecognizedFiles(dir) \/ gone = {}
          /\ evicted' = (gone # {})
          /\ ErrorRecovery("evict",
                 [f \in AllNames |-> IF f \in gone THEN "absent" ELSE dir[f]],
                 archive_path, FALSE)
    /\ UNCHANGED <<config, selection, locals, cursor, snapshot, decoded, asset_selector,
                   running, cancelled>>

\* update_photos line 118: client.get_assets(count=num_photos)
SelectOk ==
    /\ pc = "select"
    /\ \E n \in 0..NumPhotos : asset_ids' = SubSeq(IdPool, 1, n)
    /\ pc' = "download"
    /\ UNCHANGED <<config, selection, current_filter, data, archive_path,
                   extracted_files, processed_files, cursor, outcome,
                   snapshot, history, asset_selector, dir, running,
                   cancelled>>

SelectFail ==
    /\ pc = "select"
    /\ ErrorRecovery("select", dir, archive_path, FALSE)
    /\ UNCHANGED <<config, selection, locals, cursor, snapshot, history,
                   asset_selector, running, cancelled>>

\* a download that refuses an empty list of identifiers
DownloadOk_RejectEmpty ==
    /\ pc = "download"
    /\ asset_ids # <<>>
    /\ \/ \E es \in DistinctSeqs(ImageNames, Len(asset_ids)) :
             data' = [valid |-> TRUE, entries |-> es]
       \/ data' = [valid |-> FALSE, entries |-> <<>>]
    /\ pc' = "save"
    /\ UNCHANGED <<history, config, selection, current_filter, asset_ids, archive_path,
                   extracted_files, processed_files, cursor, outcome,
                   snapshot, asset_selector, dir, running, cancelled>>

\* update_photos line 122: client.download_assets(asset_ids); the server
\* answers with an archive of at most one entry per identifier, or with
\* bytes that are no archive
DownloadOk ==
    /\ pc = "download"
    /\ \/ \E es \in DistinctSeqs(ImageNames, Len(asset_ids)) :
             data' = [valid |-> TRUE, entries |-> es]
       \/ data' = [valid |-> FALSE, entries |-> <<>>]
    /\ pc' = "save"
    /\ UNCHANGED <<history, config, selection, current_filter, asset_ids, archive_path,
                   extracted_files, processed_files, cursor, outcome,
                   snapshot, asset_selector, dir, running, cancelled>>

DownloadFail ==
    /\ pc = "download"
    /\ ErrorRecovery("download", dir, archive_path, FALSE)
    /\ UNCHANGED <<config, selection, locals, cursor, snapshot, history,
                   asset_selector, running, cancelled>>

\* update_photos lines 125-126
SaveOk ==
    /\ pc = "save"
    /\ archive_path' = ArchiveName
    /\ dir' = save_binary_data(dir, ArchiveName)
    /\ pc' = "extract"
    /\ UNCHANGED <<config, selection, current_filter, asset_ids, data, extracted_files,
                   processed_files, cursor, outcome, snapshot, history,
                   asset_selector, running, cancelled>>

\* save_binary_data raises OSError: open fails (nothing written) or write
\* fails (a partial file is left)
SaveFail ==
    /\ pc = "save"
    /\ archive_path' = ArchiveName
    /\ \E opened \in BOOLEAN :
          ErrorRecovery("save",
              IF opened THEN save_binary_data(dir, ArchiveName) ELSE dir,
              ArchiveName, FALSE)
    /\ UNCHANGED <<config, selection, current_filter, asset_ids, data, extracted_files,
                   processed_files, cursor, snapshot, history,
                   asset_selector, running, cancelled>>

\* update_photos line 129: extract_zip
ExtractOk ==
    /\ pc = "extract"
    /\ data.valid
    /\ dir' = extract_zip(dir, data.entries, Len(data.entries))
    /\ extracted_files' = data.entries
    /\ pc' = "process"
    /\ UNCHANGED <<config, selection, current_filter, asset_ids, data, archive_path,
                   processed_files, cursor, outcome, snapshot, history,
                   asset_selector, running, cancelled>>

\* extract_zip raises BadZipFile (nothing extracted) or OSError after the
\* first n entries were written
ExtractFail ==
    /\ pc = "extract"
    /\ \E n \in 0..Len(data.entries) :
          /\ data.valid => n < Len(data.entries) \/ n = 0
          /\ ErrorRecovery("extract", extract_zip(dir, data.entries, n),
                           archive_path, FALSE)
    /\ UNCHANGED <<config, selection, locals, cursor, snapshot, history,
                   asset_selector, running, cancelled>>

\* a conversion step that raises when a file cannot be processed
Process_AbortOnFailure ==
    /\ pc = "process"
    /\ \E ocs \in [1..Len(extracted_files) -> Outcomes] :
          /\ \A i \in 1..Len(extracted_files) :
                ocs[i] \in DecoderOutcomes(extracted_files[i])
          /\ decoded' = ocs
          /\ LET r == process_media_files_AbortEarly(extracted_files, ocs, 1,
                           [processed |-> <<>>, d |-> dir])
             IN  IF Len(r.processed) = Len(extracted_files)
                 THEN /\ processed_files' = r.processed
                      /\ dir' = r.d
                      /\ pc' = "cleanup"
                      /\ UNCHANGED outcome
                 ELSE /\ ErrorRecovery("process", r.d, archive_path, FALSE)
                      /\ UNCHANGED processed_files
    /\ UNCHANGED <<config, selection, current_filter, asset_ids, data, archive_path,
                   extracted_files, cursor, snapshot, evicted,
                   asset_selector, running, cancelled>>

\* update_photos line 133: process_media_files, which never raises
Process ==
    /\ pc = "process"
    /\ \E ocs \in [1..Len(extracted_files) -> Outcomes] :
          /\ \A i \in 1..Len(extracted_files) :
                ocs[i] \in DecoderOutcomes(extracted_files[i])
          /\ LET r == process_media_files(extracted_files, ocs, 1,
                                          [processed |-> <<>>, d |-> dir])
             IN  /\ processed_files' = r.processed
                 /\ dir' = r.d
          /\ decoded' = ocs
    /\ pc' = "cleanup"
    /\ UNCHANGED <<config, selection, current_filter, asset_ids, data, archive_path,
                   extracted_files, cursor, outcome, snapshot, evicted,
                   asset_selector, running, cancelled>>

\* update_photos lines 138-140: the extracted files the loop deletes
ToDelete ==
    SelectSeq(extracted_files, LAMBDA f : f \notin Range(processed_files))

\* update_photos lines 137-148 and run lines 172-175: every deletion succeeds
CleanupOk ==
    /\ pc = "cleanup"
    /\ dir' = cleanup_files(cleanup_file(dir, archive_path), ToDelete)
    /\ nsucc' = Min(nsucc + 1, MaxSucc)
    /\ last_update' = nsucc'
    /\ current_filter_index' = NextFilterIndex(current_filter_index, Len(filters))
    /\ raised' = FALSE
    /\ sleep_for' = RunSleep(raised')
    /\ pc' = "sleep"
    /\ UNCHANGED <<history, config, selection, locals, failed_at, del_failed, snapshot,
                   asset_selector, running, cancelled>>

\* a cycle that records its success before it deletes the archive
CleanupArchiveFail_AfterAdvance ==
    /\ pc = "cleanup"
    /\ last_update' = Min(nsucc + 1, MaxSucc)
    /\ current_filter_index' = NextFilterIndex(current_filter_index, Len(filters))
    /\ ErrorRecovery("cleanup", dir, archive_path, TRUE)
    /\ UNCHANGED <<config, selection, locals, nsucc, snapshot, history,
                   asset_selector, running, cancelled>>

\* update_photos line 137 raises: os.remove of the archive fails
CleanupArchiveFail ==
    /\ pc = "cleanup"
    /\ ErrorRecovery("cleanup", dir, archive_path, TRUE)
    /\ UNCHANGED <<config, selection, locals, cursor, snapshot, history,
                   asset_selector, running, cancelled>>

\* update_photos line 140 raises: the archive and the first n - 1 files of
\* the loop are deleted, os.remove of the n-th fails
CleanupFileFail ==
    /\ pc = "cleanup"
    /\ \E n \in 1..Len(ToDelete) :
          ErrorRecovery("cleanup",
              cleanup_files(cleanup_file(dir, archive_path),
                            SubSeq(ToDelete, 1, n - 1)),
              archive_path, FALSE)
    /\ UNCHANGED <<config, selection, locals, cursor, snapshot, history,
                   asset_selector, running, cancelled>>

\* The cycle is over once the sleep that follows it ends: the locals of
\* update_photos are gone, the history of the cycle is closed and the files
\* it wrote count as old from here on
CycleOver ==
    /\ current_filter' = "None"
    /\ asset_ids' = <<>>
    /\ data' = NoData
    /\ archive_path' = Unbound
    /\ extracted_files' = <<>>
    /\ processed_files' = <<>>
    /\ dir' = [f \in AllNames |-> IF dir[f] = "absent" THEN "absent" ELSE "old"]
    /\ raised' = FALSE
    /\ failed_at' = "none"
    /\ del_failed' = FALSE
    /\ sleep_for' = 0
    /\ evicted' = FALSE
    /\ decoded' = <<>>
    /\ prev_failed' = (failed_at # "none")
    /\ UNCHANGED <<start_index, start_last_update>>

\* a loop that gives up after a failed cycle
Wake_BreakOnFailure ==
    /\ pc = "sleep"
    /\ pc' = IF failed_at # "none" THEN "exited" ELSE "while"
    /\ CycleOver
    /\ UNCHANGED <<config, selection, cursor, asset_selector, running, cancelled>>

\* run line 175: asyncio.sleep returns
Wake ==
    /\ pc = "sleep"
    /\ pc' = "while"
    /\ CycleOver
    /\ UNCHANGED <<config, selection, cursor, asset_selector, running, cancelled>>

\* run lines 176-177: the task is cancelled while it awaits the sleep
Cancel ==
    /\ pc = "sleep"
    /\ cancelled' = TRUE
    /\ pc' = "exited"
    /\ CycleOver
    /\ UNCHANGED <<config, selection, cursor, asset_selector, running>>

CycleStep ==
    \/ BuildStrategy
    \/ EvictOk \/ EvictFail
    \/ SelectOk \/ SelectFail
    \/ DownloadOk \/ DownloadFail
    \/ SaveOk \/ SaveFail
    \/ ExtractOk \/ ExtractFail
    \/ Process
    \/ CleanupOk \/ CleanupArchiveFail \/ CleanupFileFail

LoopStep == Run \/ StartCycle \/ ExitLoop \/ Wake

Next == LoopStep \/ CycleStep \/ SignalHandler \/ Cancel

Spec == Init /\ [][Next]_vars

\* The task is scheduled until it returns; signals and cancellation are
\* up to the environment
FairSpec == Spec /\ WF_vars(LoopStep \/ CycleStep)

----------------------------------------------------------------------------
(* One selection: a strategy is built for a filter set and asked for
   num_photos identifiers *)

orchestrator ==
    <<filters, running, last_update, current_filter_index, asset_selector,
      pc, current_filter, asset_ids, data, archive_path, extracted_files,
      processed_files, dir, sleep_for, raised, failed_at, del_failed,
      cancelled, nsucc, start_index, start_last_update, prev_failed,
      evicted, decoded>>

SelInit ==
    /\ PhotoUpdaterInit
    /\ filters = <<FilterNames[1]>>
    /\ Files(dir) = {}
    /\ filter_set \in PhotoFilters
    /\ people \in PersonDirectories
    /\ selector = NoSelector
    /\ request_body = NoRequest
    /\ response_data = NoResponse
    /\ selected_asset_ids = <<>>
    /\ posts = 0
    /\ spc = "config"

\* a build that lets the KeyError of a missing person out
CreateSelector_KeyError ==
    /\ spc = "config"
    /\ IF \A i \in 1..Len(filter_set.people) :
             filter_set.people[i] \in DOMAIN people
       THEN /\ selector' = create_selector_for_filter(filter_set, people)
            /\ spc' = "built"
       ELSE /\ selector' = selector
            /\ spc' = "raised"
    /\ UNCHANGED <<orchestrator, filter_set, people, request_body,
                   response_data, selected_asset_ids, posts>>

\* update_photos line 107
CreateSelector ==
    /\ spc = "config"
    /\ selector' = create_selector_for_filter(filter_set, people)
    /\ spc' = "built"
    /\ UNCHANGED <<orchestrator, filter_set, people, request_body,
                   response_data, selected_asset_ids, posts>>

\* update_photos line 118: get_assets(count=num_photos) posts one request
\* and returns the identifiers it makes of the answer
GetAssets ==
    /\ spc = "built"
    /\ request_body' = RequestBody(selector, NumPhotos)
    /\ posts' = posts + 1
    /\ \E resp \in Responses(selector.kind) :
          /\ response_data' = resp
          /\ selected_asset_ids' \in get_assets(selector, NumPhotos, resp)
    /\ spc' = "returned"
    /\ UNCHANGED <<orchestrator, filter_set, people, selector>>

\* response.raise_for_status() raises (lines 97, 169, 256)
GetAssetsFail ==
    /\ spc = "built"
    /\ request_body' = RequestBody(selector, NumPhotos)
    /\ posts' = posts + 1
    /\ spc' = "raised"
    /\ UNCHANGED <<orchestrator, filter_set, people, selector, response_data,
                   selected_asset_ids>>

SelNext == CreateSelector \/ GetAssets \/ GetAssetsFail

SelSpec == SelInit /\ [][SelNext]_vars

----------------------------------------------------------------------------
(* Properties *)

InCycle ==
    pc \in {"build", "evict", "select", "download", "save", "extract",
            "process", "cleanup"}
Returned == pc = "sleep"
Succeeded == Returned /\ failed_at = "none"
Failed == Returned /\ failed_at # "none"

\* C1: from cursor 0 with m >= 1 filter sets, after k successful cycles the
\* cursor is k mod m; a successful cycle moves the cursor from i to
\* (i + 1) mod m, and the filter set a cycle uses is the one at the cursor
\* when the cycle started.
C1_Rotation ==
    /\ nsucc < MaxSucc => current_filter_index = nsucc % Len(filters)
    /\ InCycle => /\ current_filter_index = start_index
                  /\ current_filter = filters[start_index + 1]
    /\ Succeeded =>
          /\ current_filter_index = (start_index + 1) % Len(filters)
          /\ current_filter = filters[start_index + 1]

C1_Witness ==
    /\ Succeeded
    /\ Len(filters) = 2
    /\ nsucc = 2
    /\ current_filter_index = 0
    /\ current_filter = "f2"

\* C2: when a step of a cycle has failed, update_photos has returned
\* without raising to the loop, the cursor and the last-success timestamp
\* are what they were before the cycle, and the orchestrator is idle.
C2_FailedCycleChangesNothing ==
    failed_at # "none" =>
        /\ pc = "sleep"
        /\ ~raised
        /\ current_filter_index = start_index
        /\ last_update = start_last_update

C2_Witness ==
    /\ Failed
    /\ failed_at = "cleanup"
    /\ Len(filters) = 2
    /\ current_filter_index = 1
    /\ last_update = 1

\* C3: the loop ends only when the running flag is false or the task was
\* cancelled, and after a failed cycle another cycle is started unless a
\* signal or a cancellation came first.
C3_LoopSurvivesFailures ==
    /\ [](pc = "exited" => ~running \/ cancelled)
    /\ (Failed ~> (pc = "build" \/ ~running \/ cancelled))

C3_Witness == pc = "build" /\ prev_failed /\ running

\* C4: after a failed cycle the loop sleeps the one-minute backoff, not the
\* configured interval.
C4_BackoffAfterFailure == Failed => sleep_for = BackoffSeconds

\* C5: when a cycle has returned, after success or after a failure in or
\* after the step that writes the archive, photos.zip is not in the publish
\* directory, provided no deletion of it failed.
C5_ArchiveRemoved ==
    (Returned /\ failed_at \in {"none", "save", "extract", "cleanup"}
              /\ ~del_failed)
        => dir[ArchiveName] = "absent"

C5_Witness ==
    /\ Failed
    /\ failed_at = "extract"
    /\ ~del_failed
    /\ archive_path = ArchiveName
    /\ dir[ArchiveName] = "absent"

\* C6: a signal changes nothing but the running flag, and a cycle that is
\* in progress when the flag is cleared still runs to its return.
C6_SignalDoesNotInterrupt ==
    /\ [][running /\ ~running' =>
            /\ pc' = pc
            /\ UNCHANGED <<history, config, selection, locals, cursor, outcome, snapshot,
                   asset_selector, dir, cancelled>>]_vars
    /\ ((InCycle /\ ~running) ~> Returned)

C6_Witness == pc = "cleanup" /\ ~running /\ extracted_files # <<>>

\* C7: once a signal has cleared the running flag it stays cleared, no
\* cycle is started any more, and the loop exits.
C7_ShutdownIsFinal ==
    /\ [][(~running /\ pc # "start") =>
            /\ ~running'
            /\ ~(pc = "while" /\ pc' = "build")]_vars
    /\ ((~running /\ pc # "start") ~> pc = "exited")

C7_Witness == pc = "exited" /\ ~running /\ ~cancelled /\ nsucc >= 1

\* C8: once the eviction step of a cycle has succeeded, the publish
\* directory holds no recognized-type file (extension compared without
\* regard to case) from before the cycle.
C8_EvictionRemovesRecognized ==
    /\ pc \in {"select", "download", "save"} => RecognizedFiles(dir) = {}
    /\ (pc \in {"extract", "process", "cleanup"}
          \/ (Returned /\ failed_at # "evict"))
        => \A f \in RecognizedFiles(dir) : dir[f] = "new"

C8_Witness == pc = "select" /\ evicted /\ nsucc >= 1

\* C9: a file of the publish directory whose extension is in none of the
\* recognized sets is never deleted and never overwritten (the archive
\* photos.zip, the process's own file, left aside).
C9_UnrecognizedUntouched ==
    [][\A f \in FileNames :
          (dir[f] # "absent" /\ ~IsRecognized(f)) => dir'[f] \in {dir[f], "old"}]_vars

\* C10: a cycle whose selection is empty is not stopped by any step of its
\* own, and when it has succeeded the cursor has advanced, the success is
\* recorded and the publish directory holds no recognized-type file.
C10_EmptySelection ==
    /\ (pc = "download" /\ asset_ids = <<>>) => ENABLED DownloadOk
    /\ (pc = "save" /\ asset_ids = <<>>) => ENABLED SaveOk
    /\ (pc = "extract" /\ asset_ids = <<>> /\ data.valid) => ENABLED ExtractOk
    /\ (pc = "process" /\ asset_ids = <<>>) => ENABLED Process
    /\ (pc = "cleanup" /\ asset_ids = <<>>) => ENABLED CleanupOk
    /\ (Succeeded /\ asset_ids = <<>>) =>
          /\ RecognizedFiles(dir) = {}
          /\ last_update >= 1
          /\ current_filter_index = (start_index + 1) % Len(filters)

C10_Witness == Succeeded /\ asset_ids = <<>> /\ evicted

\* The conversion step of the cycle has run
Processed == pc = "cleanup" \/ (Returned /\ failed_at \in {"none", "cleanup"})

\* the calls of process_media_file that returned a path, by input position
OkCalls ==
    {i \in 1..Len(extracted_files) :
        process_media_file(extracted_files[i], decoded[i]).ok}

\* the input position of the k-th call that returned a path
KthOk(k) == CHOOSE i \in OkCalls : Cardinality({j \in OkCalls : j <= i}) = k

\* C11: process_media_files applies process_media_file to every input in
\* input order whatever failed before: its result is exactly the outputs of
\* the calls that succeeded, in input order, so it is no longer than the
\* input, and the output of every successful call has been written.
C11_BatchNeverAborts ==
    Processed =>
        /\ Len(processed_files) = Cardinality(OkCalls)
        /\ Len(processed_files) <= Len(extracted_files)
        /\ \A k \in 1..Len(processed_files) :
              processed_files[k] =
                  process_media_file(extracted_files[KthOk(k)],
                                     decoded[KthOk(k)]).out
        /\ pc = "cleanup" =>
              \A i \in OkCalls :
                  dir[process_media_file(extracted_files[i], decoded[i]).out]
                      # "absent"

C11_Witness ==
    /\ pc = "cleanup"
    /\ Len(extracted_files) = 2
    /\ OkCalls = {2}
    /\ processed_files = <<convert_heic_to_jpg(extracted_files[2])>>
    /\ extracted_files[2].ext = ".heic"

\* the calls of process_media_file that raised, by input position
FailedCalls == (1..Len(extracted_files)) \ OkCalls

\* C12: a cycle in which any number of extracted files fail processing
\* (conversion failure or unsupported extension) is not failed by the
\* conversion step, can complete, and when it has completed the cursor has
\* advanced and the success timestamp is recorded.
C12_FileFailuresDoNotFailCycle ==
    /\ failed_at # "process"
    /\ pc = "process" => ENABLED Process
    /\ (pc = "cleanup" /\ FailedCalls # {}) => ENABLED CleanupOk
    /\ (Succeeded /\ FailedCalls # {}) =>
          /\ current_filter_index = (start_index + 1) % Len(filters)
          /\ last_update = nsucc
          /\ last_update >= 1

C12_Witness ==
    /\ Succeeded
    /\ Len(extracted_files) = 2
    /\ OkCalls = {}
    /\ {extracted_files[1].ext, extracted_files[2].ext} = {".heic", ".dng"}

IsHeic(f) == lower(f.ext) \in HEIC_FORMATS

\* process_media_file line 118: the path returned is the path given
PassedThrough(i) ==
    /\ i \in OkCalls
    /\ process_media_file(extracted_files[i], decoded[i]).out = extracted_files[i]

\* process_media_file lines 112 and 115: a conversion wrote another file
Converted(i) ==
    /\ i \in OkCalls
    /\ process_media_file(extracted_files[i], decoded[i]).out # extracted_files[i]

\* C13: for a HEIC-family file whose still-image decode fails, whatever the
\* reason, the video conversion is attempted; when the video conversion
\* succeeds the .mp4 path is returned and the original is deleted by the
\* orchestrator.
C13_AnyStillFailureFallsBack ==
    Processed =>
        \A i \in 1..Len(extracted_files) :
            (/\ IsHeic(extracted_files[i])
             /\ decoded[i].img # "ok"
             /\ decoded[i].vid = "ok")
            => /\ convert_heic_video_to_mp4(extracted_files[i])
                      \in Range(processed_files)
               /\ Succeeded => dir[extracted_files[i]] = "absent"

\* C14: a HEIC-family file that fails both conversions is absent from the
\* returned list, the cycle is not failed by it, and the original is still
\* in the publish directory when the cycle ends.
C14_FailedHeicRetained ==
    Processed =>
        \A i \in FailedCalls :
            IsHeic(extracted_files[i])
            => /\ Len(processed_files) = Cardinality(OkCalls)
               /\ failed_at # "process"
               /\ Succeeded => dir[extracted_files[i]] # "absent"

\* C15: after a successful batch the orchestrator deletes an extracted file
\* only if it is a HEIC-family source whose conversion occurred; a file
\* passed through unchanged is not deleted by the cycle that extracted it.
C15_OnlyConvertedDeleted ==
    Succeeded =>
        \A i \in 1..Len(extracted_files) :
            /\ dir[extracted_files[i]] = "absent"
                  => IsHeic(extracted_files[i]) /\ Converted(i)
            /\ PassedThrough(i) => dir[extracted_files[i]] # "absent"

\* C16: after a successful cycle whose archive holds n files, each passed
\* through or a HEIC-family file that converts, the publish directory
\* holds exactly n recognized-type files, none of them HEIC-family, and no
\* archive.
C16_AllDelivered ==
    (Succeeded /\ FailedCalls = {}) =>
        /\ Cardinality(RecognizedFiles(dir)) = Len(extracted_files)
        /\ \A f \in RecognizedFiles(dir) : ~IsHeic(f)
        /\ dir[ArchiveName] = "absent"

\* A search request has been posted
Posted == spc \in {"returned", "raised"}

\* C17: the request of the strategy built for a valid filter set carries a
\* query field exactly when the selector type is smart or smart-rng, and
\* the field is then the configured search_query; a random strategy sends
\* no query field.
C17_QueryFieldIffSmart ==
    Posted =>
        /\ "query" \in DOMAIN request_body
              <=> filter_set.selector_type \in {"smart", "smart-rng"}
        /\ "query" \in DOMAIN request_body
              => request_body["query"] = filter_set.search_query

C17_Witness ==
    /\ spc = "returned"
    /\ filter_set.selector_type = "smart-rng"
    /\ filter_set.search_query = "dogs"
    /\ request_body["query"] = "dogs"
    /\ selected_asset_ids # <<>>

\* every identifier of the response, in the order the server gave them:
\* the assets section, then the members of each album
ServerOrder == response_data.assets \o AlbumIds(response_data.albums)

\* C18: whatever the server answers, the smart strategy returns at most
\* num_photos identifiers, in the order of the response with the assets
\* section first and the album members after it.
C18_SmartTruncates ==
    (spc = "returned" /\ selector.kind = "SmartSearchAssetSelector") =>
        /\ Len(selected_asset_ids) <= NumPhotos
        /\ selected_asset_ids = SubSeq(ServerOrder, 1, Len(selected_asset_ids))

\* the de-duplicated candidate pool of the response
Pool == Range(response_data.assets)
            \cup UNION {Range(response_data.albums[i].assets) :
                           i \in {j \in 1..Len(response_data.albums) :
                                     response_data.albums[j].has_assets}}

\* position of the first occurrence of id in the response
FirstSeen(id) ==
    CHOOSE i \in 1..Len(ServerOrder) :
        /\ ServerOrder[i] = id
        /\ \A j \in 1..(i - 1) : ServerOrder[j] # id

IsSmartRngReturn ==
    spc = "returned" /\ selector.kind = "RandomSmartSearchAssetSelector"

\* C19: when the de-duplicated pool has more than num_photos identifiers,
\* the smart-rng strategy returns exactly num_photos identifiers, pairwise
\* distinct and all of the pool.
C19_SampleExactDistinct ==
    (IsSmartRngReturn /\ Cardinality(Pool) > NumPhotos) =>
        /\ Len(selected_asset_ids) = NumPhotos
        /\ \A i, j \in 1..Len(selected_asset_ids) :
              i # j => selected_asset_ids[i] # selected_asset_ids[j]
        /\ Range(selected_asset_ids) \subseteq Pool

C19_Witness ==
    /\ IsSmartRngReturn
    /\ Cardinality(Pool) > NumPhotos
    /\ Len(ServerOrder) > Cardinality(Pool)
    /\ Len(selected_asset_ids) = NumPhotos
    /\ \E i \in 1..(Len(selected_asset_ids) - 1) :
          FirstSeen(selected_asset_ids[i]) > FirstSeen(selected_asset_ids[i + 1])

\* C20: when the de-duplicated pool has at most num_photos identifiers,
\* the smart-rng strategy returns the whole pool, each identifier once, in
\* first-seen order (assets section first, then album members).
C20_SmallPoolReturnedWhole ==
    (IsSmartRngReturn /\ Cardinality(Pool) <= NumPhotos) =>
        /\ Range(selected_asset_ids) = Pool
        /\ Len(selected_asset_ids) = Cardinality(Pool)
        /\ \A i, j \in 1..Len(selected_asset_ids) :
              i < j => FirstSeen(selected_asset_ids[i])
                           < FirstSeen(selected_asset_ids[j])

C20_Witness ==
    /\ IsSmartRngReturn
    /\ Cardinality(Pool) = NumPhotos
    /\ Len(ServerOrder) > Cardinality(Pool)
    /\ response_data.assets # <<>>
    /\ ~(Range(AlbumIds(response_data.albums)) \subseteq Range(response_data.assets))
    /\ Len(selected_asset_ids) = NumPhotos

IsQueryReturn ==
    /\ spc = "returned"
    /\ selector.kind \in {"SmartSearchAssetSelector",
                          "RandomSmartSearchAssetSelector"}

\* C21: for the smart and the smart-rng strategy, also when album members
\* overlap the assets section, the returned list holds each identifier at
\* most once, and when nothing was sampled the identifiers are in
\* first-seen order.
C21_QueryResultsDeduplicated ==
    IsQueryReturn =>
        /\ \A i, j \in 1..Len(selected_asset_ids) :
              i # j => selected_asset_ids[i] # selected_asset_ids[j]
        /\ (selector.kind = "SmartSearchAssetSelector"
               \/ Cardinality(Pool) <= NumPhotos)
            => \A i, j \in 1..Len(selected_asset_ids) :
                  i < j => FirstSeen(selected_asset_ids[i])
                               < FirstSeen(selected_asset_ids[j])

\* the configured names the directory does not know
Unresolved ==
    {filter_set.people[i] : i \in 1..Len(filter_set.people)} \ DOMAIN people

\* C22: when a configured person name is missing from the directory, the
\* strategy is still built, selection goes ahead, and the request carries
\* no identifier but those of configured names the directory knows (none
\* for the missing name).
C22_LookupMissNotFatal ==
    Unresolved # {} =>
        /\ spc = "config" => ENABLED CreateSelector
        /\ spc \in {"built", "returned", "raised"} => selector.kind # "None"
        /\ spc = "built" => ENABLED GetAssets
        /\ spc = "raised" => request_body # NoRequest
        /\ (Posted /\ "personIds" \in DOMAIN request_body) =>
              \A k \in 1..Len(request_body["personIds"]) :
                  \E i \in 1..Len(filter_set.people) :
                      /\ filter_set.people[i] \in DOMAIN people
                      /\ request_body["personIds"][k]
                             = people[filter_set.people[i]]

C22_Witness ==
    /\ spc = "returned"
    /\ Unresolved = {"bob"}
    /\ Len(filter_set.people) = 2
    /\ selected_asset_ids # <<>>

\* update_photos lines 107-148: each step and the step that follows it
StepOrder ==
    {<<"build", "evict">>, <<"evict", "select">>, <<"select", "download">>,
     <<"download", "save">>, <<"save", "extract">>, <<"extract", "process">>,
     <<"process", "cleanup">>, <<"cleanup", "sleep">>}

\* the steps of update_photos that can raise
FailingSteps == {"evict", "select", "download", "save", "extract", "cleanup"}

\* C23: within a cycle the steps happen only in the order build, evict,
\* select, download, save, extract, convert, delete, record success and
\* advance the cursor; a step starts only when the one before it is done,
\* none runs twice, none runs after a step of the cycle failed, and what a
\* step produces does not exist before that step.
C23_StepsInOrder ==
    /\ [][
          /\ (InCycle /\ pc' # pc) =>
                \/ <<pc, pc'>> \in StepOrder /\ failed_at' = "none"
                \/ pc \in FailingSteps /\ pc' = "sleep" /\ failed_at' = pc
          /\ pc' = "build" => pc \in {"while", "build"}
          /\ failed_at # "none" => ~InCycle'
          /\ (current_filter_index' # current_filter_index
                 \/ last_update' # last_update)
              => pc = "cleanup" /\ pc' = "sleep" /\ failed_at' = "none"
       ]_vars
    /\ [](
          /\ pc \in {"evict", "select", "download", "save", "extract",
                     "process", "cleanup"} => asset_selector = current_filter
          /\ pc \in {"build", "evict", "select"} => asset_ids = <<>>
          /\ pc \in {"build", "evict", "select", "download"} => data = NoData
          /\ pc \in {"build", "evict", "select", "download", "save"}
                => archive_path = Unbound
          /\ pc \in {"build", "evict", "select", "download", "save",
                     "extract"} => extracted_files = <<>>
          /\ pc \in {"build", "evict", "select", "download", "save",
                     "extract", "process"}
                => processed_files = <<>> /\ decoded = <<>>
          /\ InCycle => /\ current_filter_index = start_index
                        /\ last_update = start_last_update
       )

C23_Witness ==
    /\ Succeeded
    /\ asset_selector = current_filter
    /\ Len(asset_ids) = 2
    /\ Len(extracted_files) = 2
    /\ Len(decoded) = 2
    /\ evicted
    /\ dir[ArchiveName] = "absent"

\* C24: a get_assets call of any strategy posts exactly one search
\* request: with size num_photos for the random and the smart strategy,
\* and for the smart-rng strategy with size max_search_results of the
\* filter set (250 when it sets none), whatever num_photos is.
C24_OneRequestWithSize ==
    /\ spc \in {"config", "built"} => posts = 0
    /\ Posted =>
          /\ posts = 1
          /\ request_body["size"] =
                IF filter_set.selector_type = "smart-rng"
                THEN IF filter_set.max_search_results # 0
                     THEN filter_set.max_search_results
                     ELSE DefaultMaxSearchResults
                ELSE NumPhotos

C24_Witness ==
    /\ spc = "returned"
    /\ filter_set.selector_type = "smart-rng"
    /\ filter_set.max_search_results = 0
    /\ request_body["size"] = 250
    /\ Len(selected_asset_ids) = NumPhotos
    /\ posts = 1

\* C25: in every reachable state, whatever the interleaving of successful
\* cycles, failed cycles and signals, the cursor is an integer in 0..m-1
\* for the m configured filter sets, so the read of the filter set at the
\* start of a cycle does not fail.
C25_CursorInRange ==
    /\ current_filter_index \in 0..(Len(filters) - 1)
    /\ (current_filter_index + 1) \in DOMAIN filters
    /\ (pc = "while" /\ running) => ENABLED StartCycle
    /\ InCycle => current_filter \in Range(filters)

C25_Witness ==
    /\ pc = "build"
    /\ prev_failed
    /\ ~running
    /\ Len(filters) = 2
    /\ current_filter_index = 1
    /\ nsucc = MaxSucc

\* C26: the cycle that follows a failed cycle uses the filter set of the
\* failed one; the cursor moves only when a cycle succeeds, so it stays
\* where it is for as long as the cycles fail; and if cycles succeed again
\* and again, every configured filter set is used again and again.
C26_RetrySameFilter ==
    /\ [][
          /\ (pc = "while" /\ pc' = "build" /\ prev_failed) =>
                /\ current_filter_index' = start_index
                /\ current_filter' = filters[start_index + 1]
          /\ current_filter_index' # current_filter_index =>
                pc = "cleanup" /\ pc' = "sleep" /\ failed_at' = "none"
       ]_vars
    /\ \A i \in 1..Len(FilterNames) :
          []<>Succeeded =>
              []<>(i > Len(filters)
                     \/ (pc = "build" /\ current_filter = filters[i]))

C26_Witness ==
    /\ pc = "build"
    /\ prev_failed
    /\ Len(filters) = 2
    /\ current_filter = filters[2]
    /\ start_index = 1
    /\ last_update = 1

\* C27: when a cycle fails at selection, download, save or extraction,
\* that is after the eviction has run, the recognized-type files that were
\* in the publish directory before the cycle are deleted and not restored:
\* none of them is there when the cycle returns.
C27_EvictedNotRestored ==
    (Failed /\ failed_at \in {"select", "download", "save", "extract"}) =>
        \A f \in RecognizedFiles(dir) : dir[f] # "old"

C27_Witness ==
    /\ Failed
    /\ failed_at = "download"
    /\ evicted
    /\ nsucc >= 1
    /\ RecognizedFiles(dir) = {}

\* C28: person-name resolution is all or nothing: the request carries the
\* personIds filter only when every configured name is in the directory
\* (then with the identifier of each name, in order); as soon as one name
\* is missing no personIds filter is sent, not even for the names that do
\* resolve.
C28_PersonIdsAllOrNothing ==
    Posted =>
        /\ "personIds" \in DOMAIN request_body
              <=> (filter_set.people # <<>> /\ Unresolved = {})
        /\ "personIds" \in DOMAIN request_body =>
              /\ Len(request_body["personIds"]) = Len(filter_set.people)
              /\ \A i \in 1..Len(filter_set.people) :
                    request_body["personIds"][i] = PersonId(filter_set.people[i])

C28_Witness ==
    /\ Posted
    /\ filter_set.people = <<"alice", "bob">>
    /\ DOMAIN people = {"alice"}
    /\ "personIds" \notin DOMAIN request_body
    /\ filter_set.selector_type = "random"

\* C29: when a cycle fails before archive_path is assigned (build,
\* eviction, selection or download), the handler's deletion of the archive
\* raises nothing to the loop and deletes no file: the cycle returns
\* normally and the publish directory is as the failed step left it.
C29_HandlerWithoutArchivePath ==
    [][(failed_at = "none"
          /\ failed_at' \in {"build", "evict", "select", "download"}) =>
            /\ archive_path = Unbound
            /\ ~raised'
            /\ pc' = "sleep"
            /\ dir'[ArchiveName] = dir[ArchiveName]
            /\ failed_at' \in {"build", "select", "download"} => dir' = dir
            /\ failed_at' = "evict" =>
                  \A f \in AllNames :
                      dir'[f] # dir[f] =>
                          f \in RecognizedFiles(dir) /\ dir'[f] = "absent"
      ]_vars

C29_Witness ==
    /\ Failed
    /\ failed_at = "download"
    /\ archive_path = Unbound
    /\ dir[ArchiveName] = "old"
    /\ ~raised

\* C30: when the deletion of the archive or of a converted-away original
\* fails, after the conversions have written their outputs, the cycle is a
\* failed one: the cursor is not advanced and the success timestamp is not
\* recorded, while the converted files stay in the publish directory.
C30_DeletionFailureFailsCycle ==
    /\ (pc = "cleanup" /\ dir[ArchiveName] # "absent")
          => ENABLED CleanupArchiveFail
    /\ (pc = "cleanup" /\ ToDelete # <<>>) => ENABLED CleanupFileFail
    /\ (Failed /\ failed_at = "cleanup") =>
          /\ current_filter_index = start_index
          /\ last_update = start_last_update
          /\ \A i \in 1..Len(extracted_files) :
                Converted(i) =>
                    dir[process_media_file(extracted_files[i], decoded[i]).out]
                        = "new"

C30_Witness ==
    /\ Failed
    /\ failed_at = "cleanup"
    /\ Len(filters) = 2
    /\ Len(extracted_files) = 1
    /\ Converted(1)
    /\ dir[extracted_files[1]] = "new"
    /\ dir[convert_heic_to_jpg(extracted_files[1])] = "new"
    /\ dir[ArchiveName] = "absent"

====
